---- MODULE Spec2Model ----
(***************************************************************************)
(* Model of bdaddr.py: the vendor dispatcher bdaddr(), the per-vendor      *)
(* write/reset encoders and the CSR event correlator _csr_get_response().  *)
(*                                                                         *)
(* bdaddr() is a coroutine.  One action of the model is one run of the     *)
(* coroutine between two suspension points of the asyncio event loop:      *)
(* from the call to the first await that really suspends, and from the     *)
(* completion of the awaited thing to the next such await (or the end).    *)
(* The controller is the environment: it completes a synchronous command   *)
(* with a status, and it delivers asynchronous notifications, which the    *)
(* host hands to whatever device.host.on_hci_event holds at that moment.   *)
(***************************************************************************)
EXTENDS Integers, Sequences, FiniteSets, TLC

(***************************************************************************)
(* Bounds of the model                                                     *)
(***************************************************************************)
\* number of notifications the controller delivers in one behaviour
MaxEvents == 2

(***************************************************************************)
(* Input domains                                                           *)
(***************************************************************************)
PUBLIC_DEVICE_ADDRESS == 0
RANDOM_DEVICE_ADDRESS == 1
AddressTypes == {PUBLIC_DEVICE_ADDRESS, RANDOM_DEVICE_ADDRESS}

\* bytes(address) of the addresses tried
Addresses == { <<255, 238, 221, 204, 187, 170>>, <<1, 2, 3, 4, 5, 6>> }

\* device.host.local_version: None, or a record with a company identifier
None == 0 - 1
SupportedIdentifiers == {0, 2, 10, 13, 15, 18, 48, 57, 305}
CompanyIdentifiers == SupportedIdentifiers \cup {1, 65535}
LocalVersions == {None} \cup CompanyIdentifiers

\* status of a command-complete: 0 is HCI_SUCCESS
HCI_SUCCESS == 0
Statuses == {HCI_SUCCESS, 12}

\* notifications the controller may deliver: an event code and the parameter
\* bytes (res[i] of the code is parameters[i + 1])
Params(b0, b9, b10) == <<b0, 0, 0, 0, 0, 0, 0, 0, 0, b9, b10>>
VendorEvents ==
    { [event_code |-> 255, parameters |-> Params(b0, b9, b10)] :
        b0 \in {194, 4}, b9 \in {0, 1}, b10 \in {0, 1} }
OtherEvents ==
    { [event_code |-> 14, parameters |-> Params(194, 0, 0)],
      [event_code |-> 62, parameters |-> Params(4, 1, 0)] }
Events == VendorEvents \cup OtherEvents

(***************************************************************************)
(* Command classes (lines 176-238) and the commands built from them        *)
(***************************************************************************)
\* bumble.hci.hci_command_op_code(ogf, ocf)
hci_command_op_code(ogf, ocf) == ogf * 1024 + ocf

_Ericsson_Write_BDAddr_Command(address) ==
    [name |-> "_Ericsson_Write_BDAddr_Command",
     op_code |-> hci_command_op_code(63, 13),
     fields |-> [address |-> address]]

_Ericsson_Store_In_Flash_Command(user_id, length, data) ==
    [name |-> "_Ericsson_Store_In_Flash_Command",
     op_code |-> hci_command_op_code(63, 34),
     fields |-> [user_id |-> user_id, length |-> length, data |-> data]]

_CSR_Write_BDAddr_Command(payload) ==
    [name |-> "_CSR_Write_BDAddr_Command",
     op_code |-> hci_command_op_code(63, 0),
     fields |-> [payload |-> payload]]

_TI_Write_BDAddr_Command(address) ==
    [name |-> "_TI_Write_BDAddr_Command",
     op_code |-> hci_command_op_code(63, 6),
     fields |-> [address |-> address]]

_BCM_Write_BDAddr_Command(address) ==
    [name |-> "_BCM_Write_BDAddr_Command",
     op_code |-> hci_command_op_code(63, 1),
     fields |-> [address |-> address]]

_Intel_Write_BDAddr_Command_0x13(address) ==
    [name |-> "_Intel_Write_BDAddr_Command",
     op_code |-> hci_command_op_code(63, 19),
     fields |-> [address |-> address]]
_Intel_Write_BDAddr_Command(address) ==
    [name |-> "_Intel_Write_BDAddr_Command",
     op_code |-> hci_command_op_code(63, 49),
     fields |-> [address |-> address]]

_CYS_Write_BDAddr_Command(address) ==
    [name |-> "_CYS_Write_BDAddr_Command",
     op_code |-> hci_command_op_code(63, 1),
     fields |-> [address |-> address]]

_Zeevo_Write_BDAddr_Command(address) ==
    [name |-> "_Zeevo_Write_BDAddr_Command",
     op_code |-> hci_command_op_code(63, 1),
     fields |-> [address |-> address]]

\* bumble.hci.HCI_Reset_Command(): op-code 0x0C03, no parameters
HCI_Reset_Command ==
    [name |-> "HCI_Reset_Command",
     op_code |-> hci_command_op_code(3, 3),
     fields |-> <<>>]

\* what travels to the controller: device.host.send_command(cmd, check_result)
\* or device.host.send_hci_packet(cmd)
send_command(cmd, check_result) ==
    [via |-> "send_command", command |-> cmd, check_result |-> check_result]
send_hci_packet(cmd) ==
    [via |-> "send_hci_packet", command |-> cmd, check_result |-> FALSE]

(***************************************************************************)
(* State                                                                   *)
(***************************************************************************)
VARIABLES
    address_type,          \* address.address_type of the call
    address,               \* bytes(address) of the call
    local_version,         \* device.host.local_version: None or the company id
    reset,                 \* the reset argument
    transient_arg,             \* the transient_arg argument of a direct call
    called,                \* "" or the function that was called
    pc,                    \* where the bdaddr coroutine stands
    result,                \* "" or the message of the exception bdaddr raised
    sent,                  \* what device.host was asked to send, in order
    response,              \* status of the command-complete not yet consumed
    completed,             \* statuses the awaited send_command calls returned
    on_hci_event,          \* the slot device.host.on_hci_event
    origin_on_hci_event,   \* per _csr_get_response call: the handler it saved
    future,                \* per _csr_get_response call: state of its future
    slot_before,           \* per _csr_get_response call: the slot when called
    delivered,             \* notifications delivered so far, with what they did
    host_events            \* notifications the host's own handler received

vars ==
    <<address_type, address, local_version, reset, transient_arg, called, pc,
      result, sent, response, completed, on_hci_event, origin_on_hci_event,
      future, slot_before, delivered, host_events>>

NoResponse == 0 - 1

\* the two _csr_get_response calls of one bdaddr call: 1 from _csr_bdaddr,
\* 2 from _csr_reset
Correlators == {1, 2}
Interceptor(k) == IF k = 1 THEN "csr1" ELSE "csr2"
AwaitCsr(k) == IF k = 1 THEN "await_csr_write" ELSE "await_csr_reset"

(***************************************************************************)
(* The coroutine, as a function on the part of the state it owns.          *)
(* st has the fields pc, result, sent, on_hci_event, origin_on_hci_event,  *)
(* future and slot_before.                                                 *)
(***************************************************************************)
Raise(st, message) == [st EXCEPT !.pc = "raised", !.result = message]
Return(st) == [st EXCEPT !.pc = "returned"]
Send(st, packet) == [st EXCEPT !.sent = Append(st.sent, packet)]
\* await device.host.send_command(...): the coroutine is suspended until the
\* command-complete arrives
AwaitCommand(st, where) == [st EXCEPT !.pc = where]

\* payload[offset] = value on a bytearray
SetByte(payload, offset, value) == [payload EXCEPT ![offset + 1] = value]

\* bytearray.fromhex("02000c001147037000000100040000000000000000000000")
CsrWriteTemplate ==
    <<2, 0, 12, 0, 17, 71, 3, 112, 0, 0, 1, 0, 4, 0, 0, 0,
      0, 0, 0, 0, 0, 0, 0, 0>>

\* bytearray.fromhex("020009000000014000000000000000000000")
CsrResetTemplate ==
    <<2, 0, 9, 0, 0, 0, 1, 64, 0, 0, 0, 0, 0, 0, 0, 0, 0, 0>>

\* the payload _csr_bdaddr builds (lines 96-108)
CsrWritePayload_inorder(address_bytes, transient) ==
    LET p0 == CsrWriteTemplate
        p1 == IF transient THEN SetByte(p0, 14, 8) ELSE p0
        p2 == SetByte(p1, 16, address_bytes[1])
        p3 == SetByte(p2, 17, 0)
        p4 == SetByte(p3, 18, address_bytes[2])
        p5 == SetByte(p4, 19, address_bytes[3])
        p6 == SetByte(p5, 20, address_bytes[4])
        p7 == SetByte(p6, 21, 0)
        p8 == SetByte(p7, 22, address_bytes[5])
        p9 == SetByte(p8, 23, address_bytes[6])
    IN  <<194>> \o p9
CsrWritePayload_noprefix(address_bytes, transient) ==
    LET p0 == CsrWriteTemplate
        p1 == IF transient THEN SetByte(p0, 14, 8) ELSE p0
        p2 == SetByte(p1, 16, address_bytes[3])
        p3 == SetByte(p2, 17, 0)
        p4 == SetByte(p3, 18, address_bytes[1])
        p5 == SetByte(p4, 19, address_bytes[2])
        p6 == SetByte(p5, 20, address_bytes[4])
        p7 == SetByte(p6, 21, 0)
        p8 == SetByte(p7, 22, address_bytes[5])
        p9 == SetByte(p8, 23, address_bytes[6])
    IN  p9
CsrWritePayload_flag15(address_bytes, transient) ==
    LET p0 == CsrWriteTemplate
        p1 == IF transient THEN SetByte(p0, 15, 8) ELSE p0
        p2 == SetByte(p1, 16, address_bytes[3])
        p3 == SetByte(p2, 17, 0)
        p4 == SetByte(p3, 18, address_bytes[1])
        p5 == SetByte(p4, 19, address_bytes[2])
        p6 == SetByte(p5, 20, address_bytes[4])
        p7 == SetByte(p6, 21, 0)
        p8 == SetByte(p7, 22, address_bytes[5])
        p9 == SetByte(p8, 23, address_bytes[6])
    IN  <<194>> \o p9
CsrWritePayload(address_bytes, transient) ==
    LET p0 == CsrWriteTemplate
        p1 == IF transient THEN SetByte(p0, 14, 8) ELSE p0
        p2 == SetByte(p1, 16, address_bytes[3])
        p3 == SetByte(p2, 17, 0)
        p4 == SetByte(p3, 18, address_bytes[1])
        p5 == SetByte(p4, 19, address_bytes[2])
        p6 == SetByte(p5, 20, address_bytes[4])
        p7 == SetByte(p6, 21, 0)
        p8 == SetByte(p7, 22, address_bytes[5])
        p9 == SetByte(p8, 23, address_bytes[6])
    IN  <<194>> \o p9

\* the payload _csr_reset builds (lines 114-117)
CsrResetPayload(transient) ==
    LET p0 == CsrResetTemplate
        p1 == IF transient THEN SetByte(p0, 6, 2) ELSE p0
    IN  <<194>> \o p1

\* line 124: the handler _csr_get_response saves, given the slot on entry and
\* its own interceptor
OriginHandler_late(slot, interceptor) == interceptor
OriginHandler(slot, interceptor) == slot

\* lines 140-141: what the finally clause leaves in the slot, given the saved
\* handler and what the try block left there
Finally_skipped(origin, installed) == installed
Finally(origin, installed) == origin

\* the try block (lines 125-139) either installs the interceptor or is
\* interrupted by an exception (the bare except catches every BaseException,
\* KeyboardInterrupt and MemoryError included), which the except clause
\* turns into a failed future
SetupOutcomes == {"installed", "exception"}

\* _csr_get_response (lines 122-142), call number k.  The function does not
\* suspend before "await future": the install and the restore happen in the
\* same run of the coroutine.
_csr_get_response(st, k, setup) ==
    LET origin == OriginHandler(st.on_hci_event, Interceptor(k))
        installed == IF setup = "installed"
                     THEN Interceptor(k) ELSE st.on_hci_event
        fut == IF setup = "installed"
               THEN "pending" ELSE "Some error occurred"
        st1 == [st EXCEPT !.slot_before[k] = st.on_hci_event,
                          !.origin_on_hci_event[k] = origin,
                          !.future[k] = fut,
                          !.on_hci_event = Finally(origin, installed)]
    IN  IF fut = "pending"
        THEN [st1 EXCEPT !.pc = AwaitCsr(k)]
        ELSE Raise(st1, fut)

_ericsson_bdaddr(st, addr) ==
    AwaitCommand(Send(st, send_command(_Ericsson_Write_BDAddr_Command(addr),
                                       TRUE)), "await_write")
_intel_bdaddr(st, addr) ==
    AwaitCommand(Send(st, send_command(_Intel_Write_BDAddr_Command(addr),
                                       TRUE)), "await_write")
_csr_bdaddr(st, addr, transient, setup) ==
    _csr_get_response(
        Send(st, send_hci_packet(
                _CSR_Write_BDAddr_Command(CsrWritePayload(addr, transient)))),
        1, setup)
_csr_reset(st, transient, setup) ==
    _csr_get_response(
        Send(st, send_hci_packet(
                _CSR_Write_BDAddr_Command(CsrResetPayload(transient)))),
        2, setup)
_ti_bdaddr(st, addr) ==
    AwaitCommand(Send(st, send_command(_TI_Write_BDAddr_Command(addr),
                                       TRUE)), "await_write")
_bcm_bdaddr(st, addr) ==
    AwaitCommand(Send(st, send_command(_BCM_Write_BDAddr_Command(addr),
                                       TRUE)), "await_write")
_zeevo_bdaddr(st, addr) ==
    AwaitCommand(Send(st, send_command(_Zeevo_Write_BDAddr_Command(addr),
                                       TRUE)), "await_write")
_st_bdaddr_key(st, addr) ==
    AwaitCommand(Send(st, send_command(
                        _Ericsson_Store_In_Flash_Command(255, 6, addr),
                        TRUE)), "await_write")
_st_bdaddr(st, addr) ==
    AwaitCommand(Send(st, send_command(
                        _Ericsson_Store_In_Flash_Command(254, 6, addr),
                        TRUE)), "await_write")
_cys_bdaddr(st, addr) ==
    AwaitCommand(Send(st, send_command(_CYS_Write_BDAddr_Command(addr),
                                       TRUE)), "await_write")

\* line 12
InvalidAddressType_off(type) == FALSE
InvalidAddressType(type) == type # PUBLIC_DEVICE_ADDRESS

\* line 15
NoLocalVersion_off(version) == FALSE
NoLocalVersion(version) == version = None

\* the first match statement (lines 19-39): the case taken
WriteCase_no57(company_identifier) ==
    CASE company_identifier = 0 -> "ericsson"
      [] company_identifier = 2 -> "intel"
      [] company_identifier = 10 -> "csr"
      [] company_identifier = 13 -> "ti"
      [] company_identifier = 15 -> "bcm"
      [] company_identifier = 18 -> "zeevo"
      [] company_identifier = 48 -> "st"
      [] company_identifier = 305 -> "cys"
      [] OTHER -> "unsupported"
WriteCase(company_identifier) ==
    CASE company_identifier = 0 -> "ericsson"
      [] company_identifier = 2 -> "intel"
      [] company_identifier = 10 -> "csr"
      [] company_identifier = 13 -> "ti"
      [] company_identifier = 15 -> "bcm"
      [] company_identifier = 18 -> "zeevo"
      [] company_identifier = 48 -> "st"
      [] company_identifier = 57 -> "ericsson"
      [] company_identifier = 305 -> "cys"
      [] OTHER -> "unsupported"

\* the second match statement (lines 41-61): the case taken
ResetCase_no57(company_identifier) ==
    CASE company_identifier \in {0, 2, 13, 18, 57, 305} -> "nothing"
      [] company_identifier = 10 -> "csr"
      [] company_identifier \in {15, 48} -> "hci_reset"
      [] OTHER -> "unsupported"
ResetCase_with0(company_identifier) ==
    CASE company_identifier \in {2, 13, 18, 305} -> "nothing"
      [] company_identifier = 10 -> "csr"
      [] company_identifier \in {0, 15, 48, 57} -> "hci_reset"
      [] OTHER -> "unsupported"
ResetCase_bcm_csr(company_identifier) ==
    CASE company_identifier \in {0, 2, 13, 18, 305} -> "nothing"
      [] company_identifier \in {10, 15} -> "csr"
      [] company_identifier \in {48, 57} -> "hci_reset"
      [] OTHER -> "unsupported"
ResetCase(company_identifier) ==
    CASE company_identifier \in {0, 2, 13, 18, 305} -> "nothing"
      [] company_identifier = 10 -> "csr"
      [] company_identifier \in {15, 48, 57} -> "hci_reset"
      [] OTHER -> "unsupported"

\* bdaddr from its call to its first suspension (lines 11-39)
BdaddrCall_concurrent(st, type, addr, version, setup) ==
    IF InvalidAddressType(type)
    THEN Raise(st, "address should be PUBLIC_DEVICE_ADDRESS")
    ELSE IF NoLocalVersion(version)
    THEN Raise(st, "No available local_version")
    ELSE LET path == WriteCase(version)
         IN  CASE path = "ericsson" -> _ericsson_bdaddr(st, addr)
               [] path = "intel" -> _intel_bdaddr(st, addr)
               [] path = "csr" ->
                    IF reset
                    THEN _csr_reset(_csr_bdaddr(st, addr, FALSE, setup),
                                    FALSE, setup)
                    ELSE _csr_bdaddr(st, addr, FALSE, setup)
               [] path = "ti" -> _ti_bdaddr(st, addr)
               [] path = "bcm" -> _bcm_bdaddr(st, addr)
               [] path = "zeevo" -> _zeevo_bdaddr(st, addr)
               [] path = "st" -> _st_bdaddr(st, addr)
               [] path = "cys" -> _cys_bdaddr(st, addr)
               [] OTHER -> Raise(st, "Unsupported manufacturer")
BdaddrCall(st, type, addr, version, setup) ==
    IF InvalidAddressType(type)
    THEN Raise(st, "address should be PUBLIC_DEVICE_ADDRESS")
    ELSE IF NoLocalVersion(version)
    THEN Raise(st, "No available local_version")
    ELSE LET path == WriteCase(version)
         IN  CASE path = "ericsson" -> _ericsson_bdaddr(st, addr)
               [] path = "intel" -> _intel_bdaddr(st, addr)
               [] path = "csr" -> _csr_bdaddr(st, addr, FALSE, setup)
               [] path = "ti" -> _ti_bdaddr(st, addr)
               [] path = "bcm" -> _bcm_bdaddr(st, addr)
               [] path = "zeevo" -> _zeevo_bdaddr(st, addr)
               [] path = "st" -> _st_bdaddr(st, addr)
               [] path = "cys" -> _cys_bdaddr(st, addr)
               [] OTHER -> Raise(st, "Unsupported manufacturer")

\* bdaddr after the write path returned normally (lines 40-61)
BdaddrReset(st, version, want_reset, setup) ==
    IF ~want_reset
    THEN Return(st)
    ELSE LET path == ResetCase(version)
         IN  CASE path = "nothing" -> Return(st)
               [] path = "csr" -> _csr_reset(st, FALSE, setup)
               [] path = "hci_reset" ->
                    AwaitCommand(Send(st, send_command(HCI_Reset_Command,
                                                       TRUE)), "await_reset")
               [] OTHER -> Raise(st, "Unsupported manufacturer")

\* send_command(..., check_result=True) returns normally only on this
CheckResult_off(status) == TRUE
CheckResult(status) == status = HCI_SUCCESS

(***************************************************************************)
(* The interceptor and the delivery of a notification                      *)
(***************************************************************************)
\* line 130: res[0] == 0xC2 and res[9] + res[10] << 8 == 0, where + binds
\* tighter than << and << tighter than ==
ResponseOk_16bit(res) ==
    res[1] = 194 /\ ((res[10] + res[11]) * 256) % 65536 = 0
ResponseOk(res) == res[1] = 194 /\ (res[10] + res[11]) * 256 = 0

\* future.set_result / future.set_exception on a future that is already
\* done raises InvalidStateError and leaves the future as it is
SetFuture(out, k, value) ==
    IF out.future[k] = "pending"
    THEN [out EXCEPT !.future[k] = value]
    ELSE [out EXCEPT !.error = "InvalidStateError"]

\* Calling handler h with an event.  "host" is the host's own handler; the
\* interceptor of call k is the closure on_hci_event of lines 127-135.
\* out has the fields future, host (what the host's handler received) and
\* error ("" or the exception that escaped).  fuel bounds the chain of
\* forwarding: a closure whose origin is itself recurses until RecursionError.
RECURSIVE CallHandler(_, _, _, _, _)
CallHandler(h, event, origins, out, fuel) ==
    IF h = "host"
    THEN [out EXCEPT !.host = Append(out.host, event)]
    ELSE LET k == IF h = "csr1" THEN 1 ELSE 2
         IN  IF event.event_code = 255
             THEN IF ResponseOk(event.parameters)
                  THEN SetFuture(out, k, "result")
                  ELSE SetFuture(out, k, "Write BDAddr (CSR) failed")
             ELSE IF fuel = 0
                  THEN [out EXCEPT !.error = "RecursionError"]
                  ELSE CallHandler(origins[k], event, origins, out, fuel - 1)

(***************************************************************************)
(* Actions                                                                 *)
(***************************************************************************)
Coroutine ==
    [pc |-> pc, result |-> result, sent |-> sent,
     on_hci_event |-> on_hci_event,
     origin_on_hci_event |-> origin_on_hci_event,
     future |-> future, slot_before |-> slot_before]

Becomes(st) ==
    /\ pc' = st.pc
    /\ result' = st.result
    /\ sent' = st.sent
    /\ on_hci_event' = st.on_hci_event
    /\ origin_on_hci_event' = st.origin_on_hci_event
    /\ future' = st.future
    /\ slot_before' = st.slot_before

Init ==
    /\ address_type \in AddressTypes
    /\ address \in Addresses
    /\ local_version \in LocalVersions
    /\ reset \in BOOLEAN
    /\ transient_arg = FALSE
    /\ called = ""
    /\ pc = "start"
    /\ result = ""
    /\ sent = <<>>
    /\ response = NoResponse
    /\ completed = <<>>
    /\ on_hci_event = "host"
    /\ origin_on_hci_event = [k \in Correlators |-> "unset"]
    /\ future = [k \in Correlators |-> "none"]
    /\ slot_before = [k \in Correlators |-> "unset"]
    /\ delivered = <<>>
    /\ host_events = <<>>

\* bdaddr(device, address, reset) is called and runs to its first suspension
Call(setup) ==
    /\ pc = "start"
    /\ called' = "bdaddr"
    /\ Becomes(BdaddrCall(Coroutine, address_type, address, local_version,
                          setup))
    /\ UNCHANGED <<address_type, address, local_version, reset, transient_arg,
                   response, completed, delivered, host_events>>

\* the controller completes the command the coroutine is waiting for
CommandComplete(status) ==
    /\ pc \in {"await_write", "await_reset"}
    /\ response = NoResponse
    /\ response' = status
    /\ UNCHANGED <<address_type, address, local_version, reset, transient_arg,
                   called, pc, result, sent, completed, on_hci_event,
                   origin_on_hci_event, future, slot_before, delivered,
                   host_events>>

\* the event loop resumes the coroutine: what it awaited is done
Resume(setup) ==
    /\ \/ pc \in {"await_write", "await_reset"} /\ response # NoResponse
       \/ \E k \in Correlators : pc = AwaitCsr(k) /\ future[k] # "pending"
    /\ IF pc \in {"await_write", "await_reset"}
       THEN /\ completed' = Append(completed, response)
            /\ response' = NoResponse
            /\ Becomes(IF ~CheckResult(response)
                       THEN Raise(Coroutine, "HCI_Error")
                       ELSE IF pc = "await_write"
                       THEN BdaddrReset(Coroutine, local_version, reset, setup)
                       ELSE Return(Coroutine))
       ELSE LET k == IF pc = "await_csr_write" THEN 1 ELSE 2
            IN  /\ UNCHANGED <<completed, response>>
                /\ Becomes(IF future[k] # "result"
                           THEN Raise(Coroutine, future[k])
                           ELSE IF k = 1
                           THEN BdaddrReset(Coroutine, local_version, reset,
                                            setup)
                           ELSE Return(Coroutine))
    /\ UNCHANGED <<address_type, address, local_version, reset, transient_arg,
                   called, delivered, host_events>>

\* the controller delivers a notification: the host calls whatever the slot
\* device.host.on_hci_event holds
Deliver(event) ==
    /\ pc # "start"
    /\ Len(delivered) < MaxEvents
    /\ LET out == CallHandler(on_hci_event, event, origin_on_hci_event,
                              [future |-> future, host |-> <<>>, error |-> ""],
                              Cardinality(Correlators))
       IN  /\ future' = out.future
           /\ host_events' = host_events \o out.host
           /\ delivered' = Append(delivered,
                                  [event |-> event, pc |-> pc,
                                   host |-> out.host,
                                   future_before |-> future,
                                   future_after |-> out.future,
                                   error |-> out.error])
    /\ UNCHANGED <<address_type, address, local_version, reset, transient_arg,
                   called, pc, result, sent, response, completed,
                   on_hci_event, origin_on_hci_event, slot_before>>

Next ==
    \/ \E setup \in SetupOutcomes : Call(setup)
    \/ \E status \in Statuses : CommandComplete(status)
    \/ \E setup \in SetupOutcomes : Resume(setup)
    \/ \E event \in Events : Deliver(event)

Spec == Init /\ [][Next]_vars

(***************************************************************************)
(* The functions of the module called on their own.  _csr_bdaddr and       *)
(* _csr_reset take a transient argument that bdaddr never passes; here     *)
(* they are also entry points, and the address ranges over every           *)
(* combination of the sample bytes.  No notification is delivered.         *)
(***************************************************************************)
ByteSamples == {0, 255}
UnitAddresses ==
    { <<b0, b1, b2, b3, b4, b5>> :
        b0 \in ByteSamples, b1 \in ByteSamples, b2 \in ByteSamples,
        b3 \in ByteSamples, b4 \in ByteSamples, b5 \in ByteSamples }

UnitInit ==
    /\ address_type \in AddressTypes
    /\ address \in UnitAddresses
    /\ local_version \in LocalVersions
    /\ reset \in BOOLEAN
    /\ transient_arg \in BOOLEAN
    /\ called = ""
    /\ pc = "start"
    /\ result = ""
    /\ sent = <<>>
    /\ response = NoResponse
    /\ completed = <<>>
    /\ on_hci_event = "host"
    /\ origin_on_hci_event = [k \in Correlators |-> "unset"]
    /\ future = [k \in Correlators |-> "none"]
    /\ slot_before = [k \in Correlators |-> "unset"]
    /\ delivered = <<>>
    /\ host_events = <<>>

\* _csr_bdaddr(device, address, transient) is called and runs to its first
\* suspension
CsrBdaddrCalled(setup) ==
    /\ pc = "start"
    /\ called' = "_csr_bdaddr"
    /\ Becomes(_csr_bdaddr(Coroutine, address, transient_arg, setup))
    /\ UNCHANGED <<address_type, address, local_version, reset, transient_arg,
                   response, completed, delivered, host_events>>

\* _csr_reset(device, transient) is called and runs to its first suspension
CsrResetCalled(setup) ==
    /\ pc = "start"
    /\ called' = "_csr_reset"
    /\ Becomes(_csr_reset(Coroutine, transient_arg, setup))
    /\ UNCHANGED <<address_type, address, local_version, reset, transient_arg,
                   response, completed, delivered, host_events>>

UnitNext ==
    \/ \E setup \in SetupOutcomes : Call(setup)
    \/ \E status \in Statuses : CommandComplete(status)
    \/ \E setup \in SetupOutcomes : Resume(setup)
    \/ \E setup \in SetupOutcomes : CsrBdaddrCalled(setup)
    \/ \E setup \in SetupOutcomes : CsrResetCalled(setup)

UnitSpec == UnitInit /\ [][UnitNext]_vars

(***************************************************************************)
(* The interceptor called on its own: after a bdaddr call for company      *)
(* identifier 10 has created it, the closure on_hci_event of lines         *)
(* 127-135 is called once with a 0xFF-class event whose byte 0 is 0xC2     *)
(* and whose bytes 9 and 10 range over all byte values.                    *)
(***************************************************************************)
Bytes == 0..255
StatusEvents ==
    { [event_code |-> 255, parameters |-> Params(194, b9, b10)] :
        b9 \in Bytes, b10 \in Bytes }

TestInit ==
    /\ address_type = PUBLIC_DEVICE_ADDRESS
    /\ address = <<1, 2, 3, 4, 5, 6>>
    /\ local_version = 10
    /\ reset = FALSE
    /\ transient_arg = FALSE
    /\ called = ""
    /\ pc = "start"
    /\ result = ""
    /\ sent = <<>>
    /\ response = NoResponse
    /\ completed = <<>>
    /\ on_hci_event = "host"
    /\ origin_on_hci_event = [k \in Correlators |-> "unset"]
    /\ future = [k \in Correlators |-> "none"]
    /\ slot_before = [k \in Correlators |-> "unset"]
    /\ delivered = <<>>
    /\ host_events = <<>>

InterceptorCalled(event) ==
    /\ future[1] = "pending"
    /\ delivered = <<>>
    /\ LET out == CallHandler(Interceptor(1), event, origin_on_hci_event,
                              [future |-> future, host |-> <<>>, error |-> ""],
                              Cardinality(Correlators))
       IN  /\ future' = out.future
           /\ host_events' = host_events \o out.host
           /\ delivered' = Append(delivered,
                                  [event |-> event, pc |-> pc,
                                   host |-> out.host,
                                   future_before |-> future,
                                   future_after |-> out.future,
                                   error |-> out.error])
    /\ UNCHANGED <<address_type, address, local_version, reset, transient_arg,
                   called, pc, result, sent, response, completed,
                   on_hci_event, origin_on_hci_event, slot_before>>

\* the one call of the interceptor, with any of the events
InterceptorTried ==
    /\ delivered = <<>>
    /\ \E event \in StatusEvents : InterceptorCalled(event)

TestNext ==
    \/ \E setup \in SetupOutcomes : Call(setup)
    \/ InterceptorTried

TestSpec == TestInit /\ [][TestNext]_vars

(***************************************************************************)
(* Vocabulary of the properties                                            *)
(***************************************************************************)
CsrAwaits == {AwaitCsr(k) : k \in Correlators}
CorrelatorAt(where) == IF where = "await_csr_write" THEN 1 ELSE 2

IsVendorEvent(event) == event.event_code = 255
\* byte 0 is 0xC2 and bytes 9 and 10 are both zero
IsSuccessReport(event) ==
    /\ event.parameters[1] = 194
    /\ event.parameters[10] = 0
    /\ event.parameters[11] = 0

\* delivery i is the first 0xFF-class notification since delivery i's
\* operation began to wait
FirstVendorEventOfWait(i) ==
    /\ delivered[i].pc \in CsrAwaits
    /\ IsVendorEvent(delivered[i].event)
    /\ \A j \in 1..(i - 1) :
          delivered[j].pc = delivered[i].pc
              => ~IsVendorEvent(delivered[j].event)

WriteCommandNames ==
    {"_Ericsson_Write_BDAddr_Command", "_Intel_Write_BDAddr_Command",
     "_TI_Write_BDAddr_Command", "_BCM_Write_BDAddr_Command",
     "_Zeevo_Write_BDAddr_Command", "_CYS_Write_BDAddr_Command",
     "_Ericsson_Store_In_Flash_Command"}
IsCsrPacket(packet) ==
    /\ packet.via = "send_hci_packet"
    /\ packet.command.name = "_CSR_Write_BDAddr_Command"
IsWrite(packet) ==
    \/ packet.via = "send_command" /\ packet.command.name \in WriteCommandNames
    \/ IsCsrPacket(packet)
         /\ Len(packet.command.fields.payload) = Len(CsrWriteTemplate) + 1
IsGenericReset(packet) ==
    /\ packet.via = "send_command"
    /\ packet.command.name = "HCI_Reset_Command"
IsReset(packet) ==
    \/ IsGenericReset(packet)
    \/ IsCsrPacket(packet)
         /\ Len(packet.command.fields.payload) = Len(CsrResetTemplate) + 1
NoResetSent == \A i \in DOMAIN sent : ~IsReset(sent[i])
CorrelatorUntouched ==
    /\ on_hci_event = "host"
    /\ \A k \in Correlators : future[k] = "none" /\ slot_before[k] = "unset"

(***************************************************************************)
(* C1.  After bdaddr for company identifier 10 has sent the CSR write      *)
(* packet and waits, the first 0xFF-class notification with byte 0 = 0xC2  *)
(* and bytes 9, 10 = 0 resolves the pending operation with success, also   *)
(* when other notifications came before it.                                *)
(***************************************************************************)
C1_MatchingNotificationResolves ==
    \A i \in DOMAIN delivered :
        ( /\ local_version = 10
          /\ delivered[i].pc = "await_csr_write"
          /\ FirstVendorEventOfWait(i)
          /\ IsSuccessReport(delivered[i].event) )
        => /\ future[1] = "result"
           /\ pc # "raised"

(***************************************************************************)
(* C2.  While a CSR operation is pending, a 0xFF-class notification whose  *)
(* status field is non-zero or whose byte 0 is not 0xC2 fails the pending  *)
(* operation with 'Write BDAddr (CSR) failed', and bdaddr raises that      *)
(* error.                                                                  *)
(***************************************************************************)
C2_FailureNotificationFails ==
    \A i \in DOMAIN delivered :
        ( /\ FirstVendorEventOfWait(i)
          /\ ~IsSuccessReport(delivered[i].event) )
        => LET k == CorrelatorAt(delivered[i].pc)
           IN  /\ future[k] = "Write BDAddr (CSR) failed"
               /\ pc # AwaitCsr(k) =>
                    pc = "raised" /\ result = "Write BDAddr (CSR) failed"

(***************************************************************************)
(* C3.  Whenever a CSR write or reset operation has finished (its future   *)
(* exists and the coroutine no longer waits for it), the slot              *)
(* device.host.on_hci_event holds the handler it held when the operation   *)
(* started, whatever notifications were delivered.                         *)
(***************************************************************************)
CsrFinished(k) == future[k] # "none" /\ pc # AwaitCsr(k)

C3_HandlerRestored ==
    \A k \in Correlators :
        CsrFinished(k) => on_hci_event = slot_before[k]

C3_Witness ==
    /\ CsrFinished(1)
    /\ on_hci_event = "host"
    /\ slot_before[1] = "host"
    /\ Len(delivered) > 0

(***************************************************************************)
(* C4.  While a CSR operation is pending, a delivered notification whose   *)
(* event code is not 0xFF reaches the handler installed before the         *)
(* operation began exactly once and unchanged, and leaves the pending      *)
(* operation pending.                                                      *)
(***************************************************************************)
C4_OtherNotificationsForwarded ==
    \A i \in DOMAIN delivered :
        ( /\ delivered[i].pc \in CsrAwaits
          /\ ~IsVendorEvent(delivered[i].event) )
        => /\ slot_before[CorrelatorAt(delivered[i].pc)] = "host"
           /\ delivered[i].host = <<delivered[i].event>>
           /\ delivered[i].future_after = delivered[i].future_before
           /\ delivered[i].error = ""

C4_Witness ==
    \E i \in DOMAIN delivered :
        /\ delivered[i].pc = "await_csr_write"
        /\ ~IsVendorEvent(delivered[i].event)
        /\ delivered[i].host = <<delivered[i].event>>
        /\ future[1] = "pending"

(***************************************************************************)
(* C5.  A call with a non-public address fails, for every company          *)
(* identifier and reset flag, with nothing sent and the handler slot       *)
(* untouched.                                                              *)
(***************************************************************************)
C5_NonPublicRejected ==
    (address_type # PUBLIC_DEVICE_ADDRESS /\ pc # "start")
    => /\ pc = "raised"
       /\ result # ""
       /\ sent = <<>>
       /\ CorrelatorUntouched

C5_Witness ==
    /\ address_type = RANDOM_DEVICE_ADDRESS
    /\ local_version = 10
    /\ reset
    /\ pc = "raised"
    /\ sent = <<>>

(***************************************************************************)
(* C6.  With a public address, every identifier in                         *)
(* {0,2,10,13,15,18,48,57,305} selects exactly one write path (0 and 57    *)
(* the Ericsson write), and every other identifier fails with              *)
(* 'Unsupported manufacturer' with nothing sent, with or without reset.    *)
(***************************************************************************)
C6_Supported == {0, 2, 10, 13, 15, 18, 48, 57, 305}

C6_DispatchTotal ==
    ( /\ address_type = PUBLIC_DEVICE_ADDRESS
      /\ local_version # None
      /\ pc # "start" )
    => IF local_version \in C6_Supported
       THEN /\ Len(sent) >= 1
            /\ IsWrite(sent[1])
            /\ Cardinality({i \in DOMAIN sent : IsWrite(sent[i])}) = 1
            /\ result # "Unsupported manufacturer"
            /\ local_version \in {0, 57} =>
                 sent[1].command.name = "_Ericsson_Write_BDAddr_Command"
       ELSE /\ pc = "raised"
            /\ result = "Unsupported manufacturer"
            /\ sent = <<>>

C6_Witness ==
    /\ address_type = PUBLIC_DEVICE_ADDRESS
    /\ local_version = 57
    /\ pc = "await_write"
    /\ Len(sent) = 1
    /\ sent[1].command.name = "_Ericsson_Write_BDAddr_Command"

(***************************************************************************)
(* C7.  For identifiers 15, 48 and 57 a call with reset requested sends    *)
(* nothing but the write before the write has completed, and once the      *)
(* write has succeeded it has sent exactly the write and then one          *)
(* parameterless HCI reset through send_command with check_result.         *)
(***************************************************************************)
C7_ResetAfterWrite ==
    ( /\ address_type = PUBLIC_DEVICE_ADDRESS
      /\ local_version \in {15, 48, 57}
      /\ reset
      /\ pc # "start" )
    => /\ completed = <<>> =>
            Len(sent) = 1 /\ IsWrite(sent[1]) /\ NoResetSent
       /\ (completed # <<>> /\ completed[1] = HCI_SUCCESS) =>
            /\ Len(sent) = 2
            /\ IsWrite(sent[1])
            /\ IsGenericReset(sent[2])
            /\ sent[2].command.fields = <<>>
            /\ sent[2].check_result

C7_Witness ==
    /\ local_version = 57
    /\ reset
    /\ completed = <<HCI_SUCCESS, HCI_SUCCESS>>
    /\ pc = "returned"
    /\ Len(sent) = 2
    /\ IsGenericReset(sent[2])

(***************************************************************************)
(* C8.  For identifiers 0, 2, 13, 18 and 305 a call with reset requested   *)
(* sends the single write command and returns when the write succeeds;     *)
(* for every supported identifier a call without reset sends no reset.     *)
(***************************************************************************)
C8_NoResetPath ==
    ( /\ address_type = PUBLIC_DEVICE_ADDRESS
      /\ local_version \in C6_Supported
      /\ pc # "start" )
    => /\ (local_version \in {0, 2, 13, 18, 305} \/ ~reset) =>
            Len(sent) = 1 /\ IsWrite(sent[1]) /\ NoResetSent
       /\ ( /\ local_version \in {0, 2, 13, 18, 305}
            /\ completed # <<>>
            /\ completed[1] = HCI_SUCCESS ) =>
            pc = "returned" /\ result = "" /\ completed = <<HCI_SUCCESS>>

C8_Witness ==
    /\ local_version = 0
    /\ reset
    /\ pc = "returned"
    /\ completed = <<HCI_SUCCESS>>
    /\ Len(sent) = 1

(***************************************************************************)
(* C9.  If the write step fails (the write command completes with a        *)
(* non-success status, or the CSR write's future holds an exception when   *)
(* the coroutine goes on), bdaddr raises and sends no reset, also when     *)
(* reset was requested.                                                    *)
(***************************************************************************)
C9_WriteFailureStops ==
    /\ (completed # <<>> /\ completed[1] # HCI_SUCCESS) =>
          /\ pc = "raised"
          /\ result # ""
          /\ Len(sent) = 1
          /\ NoResetSent
    /\ (future[1] \notin {"none", "pending", "result"}
          /\ pc # "await_csr_write") =>
          /\ pc = "raised"
          /\ result = future[1]
          /\ Len(sent) = 1
          /\ NoResetSent

C9_Witness ==
    /\ local_version = 15
    /\ reset
    /\ completed = <<12>>
    /\ pc = "raised"
    /\ Len(sent) = 1

(***************************************************************************)
(* C10.  With a public address and no cached local_version, bdaddr fails   *)
(* with 'No available local_version' and sends nothing, for every reset    *)
(* flag.                                                                   *)
(***************************************************************************)
C10_MissingIdentification ==
    ( /\ address_type = PUBLIC_DEVICE_ADDRESS
      /\ local_version = None
      /\ pc # "start" )
    => /\ pc = "raised"
       /\ result = "No available local_version"
       /\ sent = <<>>
       /\ CorrelatorUntouched

C10_Witness ==
    /\ address_type = PUBLIC_DEVICE_ADDRESS
    /\ local_version = None
    /\ reset
    /\ pc = "raised"
    /\ result = "No available local_version"

(***************************************************************************)
(* Vocabulary of the encoder properties                                    *)
(***************************************************************************)
\* bdaddr reached a vendor write path
BdaddrDispatched ==
    /\ called = "bdaddr"
    /\ address_type = PUBLIC_DEVICE_ADDRESS
    /\ local_version \in C6_Supported
    /\ Len(sent) >= 1
\* the first thing sent is the packet of the CSR write step
CsrWriteSent ==
    /\ Len(sent) >= 1
    /\ \/ called = "_csr_bdaddr"
       \/ BdaddrDispatched /\ local_version = 10
\* the transient flag the CSR write step ran with
CsrWriteTransient == called = "_csr_bdaddr" /\ transient_arg
CsrWritePacket == sent[1].command.fields.payload
CsrWriteBody == Tail(CsrWritePacket)
\* the non-transient body for address bytes a: the bytes of the hexadecimal
\* template, with body offsets 16..23 taken from the address
ExpectedCsrBody(a) ==
    <<2, 0, 12, 0, 17, 71, 3, 112, 0, 0, 1, 0, 4, 0, 0, 0,
      a[3], 0, a[1], a[2], a[4], 0, a[5], a[6]>>

(***************************************************************************)
(* C11.  For every address the CSR write step sends, as a raw packet, the  *)
(* byte 0xC2 followed by a body whose offsets 16..23 are address bytes     *)
(* 2, (0), 0, 1, 3, (0), 4, 5; without the transient flag every other      *)
(* body offset holds the template byte.                                    *)
(***************************************************************************)
C11_CsrAddressLayout ==
    CsrWriteSent =>
        /\ IsCsrPacket(sent[1])
        /\ CsrWritePacket = <<194>> \o CsrWriteBody
        /\ \A o \in 16..23 :
              CsrWriteBody[o + 1] = ExpectedCsrBody(address)[o + 1]
        /\ ~CsrWriteTransient => CsrWriteBody = ExpectedCsrBody(address)

C11_Witness ==
    /\ called = "_csr_bdaddr"
    /\ ~transient_arg
    /\ address = <<255, 0, 0, 255, 0, 255>>
    /\ Len(sent) = 1
    /\ CsrWriteBody[17] = 0
    /\ CsrWriteBody[19] = 255
    /\ CsrWriteBody[20] = 0

(***************************************************************************)
(* C12.  As claimed: the CSR write step's output is a 19-byte body after   *)
(* the 0xC2 prefix, 20 bytes in all, for every address and either value    *)
(* of the transient flag.                                                  *)
(***************************************************************************)
C12_Original ==
    CsrWriteSent =>
        /\ CsrWritePacket[1] = 194
        /\ Len(CsrWriteBody) = 19
        /\ Len(CsrWritePacket) = 20

(***************************************************************************)
(* C12, amended.  The CSR write step's output is a 24-byte body after the  *)
(* 0xC2 prefix, 25 bytes in all, for every address and either value of     *)
(* the transient flag.                                                     *)
(***************************************************************************)
C12_CsrPacketLength ==
    CsrWriteSent =>
        /\ CsrWritePacket[1] = 194
        /\ Len(CsrWriteBody) = 24
        /\ Len(CsrWritePacket) = 25

C12_Witness ==
    /\ called = "_csr_bdaddr"
    /\ transient_arg
    /\ Len(sent) = 1
    /\ Len(CsrWritePacket) = 25

(***************************************************************************)
(* C13.  For the six standard vendors the write is one command sent        *)
(* through send_command with check_result, whose only field is the six     *)
(* address bytes in source order and whose op-code is namespace 0x3F with  *)
(* command number 0x000D (ids 0, 57), 0x0031 (2), 0x0006 (13), 0x0001      *)
(* (15, 18, 305).                                                          *)
(***************************************************************************)
C13_CommandNumber(id) ==
    CASE id \in {0, 57} -> 13
      [] id = 2 -> 49
      [] id = 13 -> 6
      [] id \in {15, 18, 305} -> 1

C13_StandardWrite ==
    (BdaddrDispatched /\ local_version \in {0, 2, 13, 15, 18, 57, 305})
    => /\ sent[1].via = "send_command"
       /\ sent[1].check_result
       /\ sent[1].command.op_code \div 1024 = 63
       /\ sent[1].command.op_code % 1024 = C13_CommandNumber(local_version)
       /\ sent[1].command.fields = [address |-> address]
       /\ Len(sent[1].command.fields.address) = 6

C13_Witness ==
    /\ BdaddrDispatched
    /\ local_version = 2
    /\ address = <<255, 0, 255, 0, 0, 255>>
    /\ sent[1].command.op_code = 64561
    /\ sent[1].command.fields.address = <<255, 0, 255, 0, 0, 255>>

(***************************************************************************)
(* C14.  For identifier 48 the write is one store-in-flash command sent    *)
(* through send_command with check_result, with key 0xFE, length 6 and     *)
(* the six address bytes as data.                                          *)
(***************************************************************************)
C14_StoreInFlash ==
    (BdaddrDispatched /\ local_version = 48)
    => /\ sent[1].via = "send_command"
       /\ sent[1].check_result
       /\ sent[1].command.name = "_Ericsson_Store_In_Flash_Command"
       /\ sent[1].command.fields.user_id = 254
       /\ sent[1].command.fields.length = 6
       /\ sent[1].command.fields.data = address
       /\ Len(sent[1].command.fields.data) = 6
       /\ \A i \in DOMAIN sent : i > 1 => ~IsWrite(sent[i])

C14_Witness ==
    /\ BdaddrDispatched
    /\ local_version = 48
    /\ address = <<0, 255, 0, 0, 255, 255>>
    /\ sent[1].command.fields.user_id = 254
    /\ sent[1].command.fields.data = <<0, 255, 0, 0, 255, 255>>

(***************************************************************************)
(* C19.  The CSR write body depends on the transient flag in body offset   *)
(* 14 only, which is 0x00 without the flag and 0x08 with it; a CSR write   *)
(* issued through bdaddr has 0x00 there.                                   *)
(***************************************************************************)
C19_TransientFlagByte ==
    CsrWriteSent =>
        LET flag == IF CsrWriteTransient THEN 8 ELSE 0
        IN  /\ CsrWriteBody[15] = flag
            /\ CsrWriteBody = [ExpectedCsrBody(address) EXCEPT ![15] = flag]
            /\ called = "bdaddr" => CsrWriteBody[15] = 0

C19_Witness ==
    /\ called = "_csr_bdaddr"
    /\ transient_arg
    /\ Len(sent) = 1
    /\ CsrWriteBody[15] = 8
    /\ CsrWriteBody[16] = 0

(***************************************************************************)
(* C20.  A bdaddr call for an identifier other than 10 leaves the handler  *)
(* slot alone and sends only through send_command; the CSR write and       *)
(* reset steps send only raw packets and never await a command.            *)
(***************************************************************************)
C20_TransportSeparation ==
    /\ (called = "bdaddr" /\ local_version # 10) =>
          /\ CorrelatorUntouched
          /\ \A i \in DOMAIN sent : sent[i].via = "send_command"
    /\ ( \/ called \in {"_csr_bdaddr", "_csr_reset"}
         \/ called = "bdaddr" /\ local_version = 10 ) =>
          /\ \A i \in DOMAIN sent : sent[i].via = "send_hci_packet"
          /\ completed = <<>>
          /\ response = NoResponse
          /\ pc \notin {"await_write", "await_reset"}

C20_Witness ==
    /\ called = "bdaddr"
    /\ local_version = 15
    /\ reset
    /\ pc = "returned"
    /\ Len(sent) = 2
    /\ CorrelatorUntouched

(***************************************************************************)
(* C15.  In every state in which the coroutine waits for a CSR future,     *)
(* the slot device.host.on_hci_event holds that call's interceptor.        *)
(***************************************************************************)
C15_InterceptorInstalledWhilePending ==
    \A k \in Correlators :
        (pc = AwaitCsr(k) /\ future[k] = "pending")
            => on_hci_event = Interceptor(k)

(***************************************************************************)
(* C16.  A CSR future changes state at most once, and only on the first    *)
(* 0xFF-class notification of its wait; every later 0xFF-class             *)
(* notification delivered during the wait reaches the handler installed    *)
(* before, changes no future and raises nothing.                           *)
(***************************************************************************)
Resolutions(k) ==
    {i \in DOMAIN delivered :
        delivered[i].future_after[k] # delivered[i].future_before[k]}

C16_ResolvedAtMostOnce ==
    /\ \A k \in Correlators :
          /\ Cardinality(Resolutions(k)) <= 1
          /\ \A i \in Resolutions(k) :
                /\ delivered[i].future_before[k] = "pending"
                /\ delivered[i].pc = AwaitCsr(k)
                /\ FirstVendorEventOfWait(i)
    /\ \A i \in DOMAIN delivered :
          ( /\ delivered[i].pc \in CsrAwaits
            /\ IsVendorEvent(delivered[i].event)
            /\ ~FirstVendorEventOfWait(i) )
          => /\ delivered[i].host = <<delivered[i].event>>
             /\ delivered[i].future_after = delivered[i].future_before
             /\ delivered[i].error = ""

C16_Witness ==
    /\ Len(delivered) >= 2
    /\ delivered[1].pc = "await_csr_write"
    /\ delivered[2].pc = "await_csr_write"
    /\ IsVendorEvent(delivered[1].event)
    /\ IsVendorEvent(delivered[2].event)
    /\ delivered[2].host = <<delivered[2].event>>
    /\ delivered[2].error = ""

(***************************************************************************)
(* C17.  During a bdaddr call for identifier 10 with reset requested, at   *)
(* most one CSR future is pending and at most one interceptor overrides    *)
(* the slot, and a CSR reset packet has been sent only if the write's      *)
(* future resolved with success.                                           *)
(***************************************************************************)
C17_OneCsrOperationAtATime ==
    (called = "bdaddr" /\ local_version = 10 /\ reset)
    => /\ ~(future[1] = "pending" /\ future[2] = "pending")
       /\ future[2] # "none" => future[1] = "result"
       /\ ~NoResetSent => future[1] = "result"
       /\ on_hci_event # "host" =>
            origin_on_hci_event[IF on_hci_event = "csr1" THEN 1 ELSE 2]
                = "host"

C17_Witness ==
    /\ called = "bdaddr"
    /\ local_version = 10
    /\ reset
    /\ pc = "await_csr_write"
    /\ future[1] = "pending"
    /\ future[2] = "none"
    /\ Len(sent) = 1
    /\ \E i \in DOMAIN delivered :
          IsVendorEvent(delivered[i].event)
              /\ IsSuccessReport(delivered[i].event)

(***************************************************************************)
(* C18.  With byte 0 = 0xC2, the test of line 130 accepts bytes b9, b10    *)
(* at offsets 9 and 10 exactly when the 16-bit value b9 + (b10 << 8) is    *)
(* zero, that is exactly when b9 = 0 and b10 = 0.                          *)
(***************************************************************************)
C18_StatusTest ==
    \A i \in DOMAIN delivered :
        LET b9 == delivered[i].event.parameters[10]
            b10 == delivered[i].event.parameters[11]
            accepted == delivered[i].future_after[1] = "result"
            rejected == delivered[i].future_after[1]
                            = "Write BDAddr (CSR) failed"
        IN  /\ accepted <=> (b9 + b10 * 256 = 0)
            /\ accepted <=> (b9 = 0 /\ b10 = 0)
            /\ rejected <=> ~accepted

C18_Witness ==
    /\ Len(delivered) = 1
    /\ delivered[1].event.parameters[10] = 1
    /\ delivered[1].event.parameters[11] = 255
    /\ delivered[1].future_after[1] = "Write BDAddr (CSR) failed"

====
